---- MODULE Spec2Model ----
(***************************************************************************)
(* A model of the Aquacomputer D5 Next hwmon driver                        *)
(* (aquacomputer_d5next.c): the cached sensor snapshot fed by the periodic *)
(* HID sensor report, the freshness gate of d5next_read, and the           *)
(* download / patch / checksum / upload transactions on the 809-byte       *)
(* control report that every configuration read and write goes through.    *)
(*                                                                         *)
(* The control report is kept at its real size and layout, byte by byte.   *)
(* Callers are a bounded number of threads entering the driver through     *)
(* its hwmon and sysfs callbacks; the HID core delivers raw events and     *)
(* calls remove.  Every blocking device request is a step of its own, so   *)
(* that whatever may run while a thread waits for the device can run.      *)
(***************************************************************************)
EXTENDS Integers, Sequences, FiniteSets, TLC

(***************************************************************************)
(* Bounds of the model.                                                    *)
(***************************************************************************)
\* Number of calls into the driver that are started in one behaviour.
MaxCalls == 2
\* Timer ticks per second (CONFIG_HZ of the kernel the driver is built for).
HZ == 1

\* The caller threads.
Procs == {1, 2}
\* The thread of the runs in which one thread makes all the calls.
Readers == {1}

(***************************************************************************)
(* Program constants.                                                      *)
(***************************************************************************)
SENSOR_REPORT_ID == 1
STATUS_REPORT_ID == 3
SECONDARY_STATUS_REPORT_ID == 2
STATUS_UPDATE_INTERVAL == 2 * HZ
SECONDARY_STATUS_REPORT_SIZE == 11
STATUS_REPORT_CHECKSUM_START == 1
STATUS_REPORT_CHECKSUM_LENGTH == 806

SERIAL_FIRST_PART == 3
SERIAL_SECOND_PART == 5
FIRMWARE_VERSION == 13
POWER_CYCLES == 24
PLUS_5V_VOLTAGE == 57
COOLANT_TEMP == 87
FAN_VOLTAGE == 97
FAN_CURRENT == 99
FAN_POWER == 101
FAN_SPEED == 103
PUMP_VOLTAGE == 110
PUMP_CURRENT == 112
PUMP_POWER == 114
PUMP_SPEED == 116
FAN_SETPOINT == 119
PUMP_SETPOINT == 121

FAN_CONTROL_MANUAL == 0
FAN_CONTROL_PID == 1
FAN_CONTROL_CURVE == 2

NUM_CTRL_CURVE_POINTS == 16
IDX_MIN_PWM == NUM_CTRL_CURVE_POINTS + 2
IDX_MAX_PWM == NUM_CTRL_CURVE_POINTS + 3

FAN_CONTROL_CHANNEL_FAN == 0
FAN_CONTROL_CHANNEL_PUMP == 1
FAN_CONTROL_NUM_CHANNELS == 2
USERSPACE_CHANNEL_PUMP == 0
USERSPACE_CHANNEL_FAN == 1

\* errno values, returned negated
ENOENT == 2
EIO == 5
EINVAL == 22
ENODATA == 61
EOPNOTSUPP == 95

(***************************************************************************)
(* The packed layout of struct d5next_control_data.                        *)
(***************************************************************************)
SIZEOF_FAN_PROPERTIES == 9
SIZEOF_PID_DATA == 14
SIZEOF_CURVE_DATA == 2 + 2 * NUM_CTRL_CURVE_POINTS + 2 * NUM_CTRL_CURVE_POINTS
SIZEOF_FAN_CTRL == 1 + 2 + 2 + SIZEOF_PID_DATA + SIZEOF_CURVE_DATA
PADDING_LEN == 46
PADDING2_LEN == 572

OFF_FAN_PROPERTIES == 1 + PADDING_LEN
OFF_FAN_CTRL == OFF_FAN_PROPERTIES + FAN_CONTROL_NUM_CHANNELS * SIZEOF_FAN_PROPERTIES
OFF_PADDING2 == OFF_FAN_CTRL + FAN_CONTROL_NUM_CHANNELS * SIZEOF_FAN_CTRL
OFF_CRC == OFF_PADDING2 + PADDING2_LEN
STATUS_REPORT_SIZE == OFF_CRC + 2

\* &buffer->fan_properties[ch].<field>; C computes the address for any ch.
FanPropsOff(ch) == OFF_FAN_PROPERTIES + ch * SIZEOF_FAN_PROPERTIES
OffMinPwm(ch) == FanPropsOff(ch) + 1
OffMaxPwm(ch) == FanPropsOff(ch) + 3
OffMaxSpeed(ch) == FanPropsOff(ch) + 7
\* &buffer->fan_ctrl[ch].<field>
FanCtrlOff(ch) == OFF_FAN_CTRL + ch * SIZEOF_FAN_CTRL
OffMode(ch) == FanCtrlOff(ch)
OffManualSetpoint(ch) == FanCtrlOff(ch) + 1
OffStartTemp(ch) == FanCtrlOff(ch) + 5 + SIZEOF_PID_DATA
\* &curve.temps[idx] and &curve.powers[idx]; idx is not checked against the
\* array length, the address is plain pointer arithmetic.
OffTemps(ch, idx) == OffStartTemp(ch) + 2 + 2 * idx
OffPowers(ch, idx) == OffStartTemp(ch) + 2 + 2 * NUM_CTRL_CURVE_POINTS + 2 * idx

BlobIdx == 0 .. (STATUS_REPORT_SIZE - 1)
Byte == 0 .. 255

(***************************************************************************)
(* Bytes and words.                                                        *)
(***************************************************************************)
Xor4 == [a \in 0 .. 15 |-> [b \in 0 .. 15 |->
           LET Bit(v, k) == (v \div k) % 2
               X(k) == (Bit(a, k) + Bit(b, k)) % 2
           IN  X(1) + 2 * X(2) + 4 * X(4) + 8 * X(8)]]
Xor8(a, b) == 16 * Xor4[a \div 16][b \div 16] + Xor4[a % 16][b % 16]
Xor16(a, b) == 256 * Xor8(a \div 256, b \div 256) + Xor8(a % 256, b % 256)

\* conversion of a C integer to u8 / u16 (two's complement truncation)
ToU8(v) == v % 256
ToU16(v) == v % 65536

get_unaligned_be16(buf, off) == 256 * buf[off] + buf[off + 1]
get_unaligned_be32(buf, off) ==
    16777216 * buf[off] + 65536 * buf[off + 1] + 256 * buf[off + 2] + buf[off + 3]
put_unaligned_be16(buf, off, v) ==
    [buf EXCEPT ![off] = ToU16(v) \div 256, ![off + 1] = ToU16(v) % 256]
\* *(u8 *)p = v
put_u8(buf, off, v) == [buf EXCEPT ![off] = ToU8(v)]

\* A u16 object read from memory by the CPU (little-endian host), and the
\* byte swap of ntohs on such a host.
load_u16(buf, off) == buf[off] + 256 * buf[off + 1]
ntohs(x) == 256 * (x % 256) + (x \div 256)

\* C integer division truncates towards zero.
CDiv(a, b) == IF a >= 0 THEN a \div b ELSE -((-a) \div b)
\* DIV_ROUND_CLOSEST of the kernel, for a positive divisor
DIV_ROUND_CLOSEST(x, d) ==
    IF x >= 0 THEN CDiv(x + d \div 2, d) ELSE CDiv(x - d \div 2, d)

(***************************************************************************)
(* lib/crc16.c: the table-driven CRC-16 (reflected polynomial 0xA001).     *)
(***************************************************************************)
RECURSIVE Crc16TableEntry(_, _)
Crc16TableEntry(c, n) ==
    IF n = 0 THEN c
    ELSE Crc16TableEntry(IF c % 2 = 1 THEN Xor16(c \div 2, 40961) ELSE c \div 2, n - 1)
crc16_table == [i \in Byte |-> Crc16TableEntry(i, 8)]
crc16_byte(crc, data) == Xor16(crc \div 256, crc16_table[Xor8(crc % 256, data)])
\* while (len--) crc = crc16_byte(crc, *buffer++); the range is folded in
\* halves, left half first (the test on crc only makes the evaluator
\* compute the left half before it descends into the right one).
RECURSIVE crc16(_, _, _, _)
crc16(crc, buf, start, len) ==
    IF crc < 0 \/ len = 0 THEN crc
    ELSE IF len = 1 THEN crc16_byte(crc, buf[start])
    ELSE LET h == len \div 2
         IN  crc16(crc16(crc, buf, start, h), buf, start + h, len - h)

(***************************************************************************)
(* Unit conversion and channel translation.                                *)
(***************************************************************************)
\* -EINVAL converted to the enum's unsigned type is a huge channel number;
\* any value outside 0..1 stands for it.
d5next_userspace_to_internal_channel(x) ==
    CASE x = USERSPACE_CHANNEL_PUMP -> FAN_CONTROL_CHANNEL_PUMP
      [] x = USERSPACE_CHANNEL_FAN -> FAN_CONTROL_CHANNEL_FAN
      [] OTHER -> -EINVAL
fan_channel_is_valid(channel) == channel >= 0 /\ channel < FAN_CONTROL_NUM_CHANNELS
\* A d5next_percent_to_pwm that takes its argument for a host-order number.
PercentToPwmNoSwap(x) == DIV_ROUND_CLOSEST(x * 255, 100 * 100)
d5next_percent_to_pwm(x) == DIV_ROUND_CLOSEST(ntohs(x) * 255, 100 * 100)
\* A d5next_pwm_to_percent that divides without rounding.
PwmToPercentTruncating(x) == ToU16((x * 100 * 100) \div 255)
d5next_pwm_to_percent(x) == ToU16(DIV_ROUND_CLOSEST(x * 100 * 100, 255))

(***************************************************************************)
(* The device: its resident configuration and what it answers.             *)
(***************************************************************************)
\* The configuration the pump holds at attach: fan in manual mode at 50.00%,
\* pump in curve mode, every other byte (lighting and the rest) non-zero
\* and different from its neighbours.  The device keeps its own checksum.
DeviceBytes0 ==
    LET pattern == [i \in BlobIdx |-> (i * 7 + 11) % 256]
        b1 == put_u8(pattern, OffMode(FAN_CONTROL_CHANNEL_FAN), FAN_CONTROL_MANUAL)
        b2 == put_unaligned_be16(b1, OffManualSetpoint(FAN_CONTROL_CHANNEL_FAN), 5000)
        b3 == put_u8(b2, OffMode(FAN_CONTROL_CHANNEL_PUMP), FAN_CONTROL_CURVE)
        b4 == put_unaligned_be16(b3, OffManualSetpoint(FAN_CONTROL_CHANNEL_PUMP), 10000)
    IN  b4
DeviceBlob0 ==
    put_unaligned_be16(DeviceBytes0, OFF_CRC,
        Xor16(crc16(65535, DeviceBytes0, STATUS_REPORT_CHECKSUM_START,
                    STATUS_REPORT_CHECKSUM_LENGTH), 65535))

ZeroBlob == [i \in BlobIdx |-> 0]

\* What hid_hw_raw_request can return for the GET of the control report: an
\* error, a short transfer, or the whole report.
GetResults == {-EIO, FanCtrlOff(FAN_CONTROL_CHANNEL_PUMP), STATUS_REPORT_SIZE}
\* ... for the SET of the control report, and for the SET of the secondary one
SetResults == {-EIO, STATUS_REPORT_SIZE}
AckResults == {-EIO, SECONDARY_STATUS_REPORT_SIZE}

(***************************************************************************)
(* State.                                                                  *)
(***************************************************************************)
VARIABLES
    jiffies,    \* the kernel's tick counter
    updated,    \* priv->updated
    snap,       \* the sensor fields of struct d5next_data
    mutex,      \* priv->mutex: 0 when free, else the thread that took it
    buffer,     \* *priv->buffer, the driver's one copy of the control report
    device,     \* the control report resident in the pump
    removal,    \* how far d5next_remove has got
    pc,         \* where each caller thread is
    req,        \* the call each thread is in (or was last in)
    txn,        \* the transaction that call turned into
    ret,        \* the int each call returns
    out,        \* the value each call hands back (*val, or the text printed)
    hist,       \* per call: what it saw and did (for the properties only)
    calls,      \* calls started so far
    ev,         \* the sensor report d5next_raw_event decoded last
    irq         \* the call of d5next_raw_event that is followed store by store

vars == <<jiffies, updated, snap, mutex, buffer, device, removal, pc, req, txn,
          ret, out, hist, calls, ev, irq>>

\* time_after(a, b): ((long)(b) - (long)(a) < 0)
time_after(a, b) == b - a < 0

InitJiffies == STATUS_UPDATE_INTERVAL
\* The clock runs until a snapshot taken at attach has gone stale.
MaxJiffies == InitJiffies + 2 * STATUS_UPDATE_INTERVAL

NoReq == [op |-> "none", type |-> "none", attr |-> "none", channel |-> 0, idx |-> 0, val |-> 0]
NoTxn == [kind |-> "none", off |-> 0, size |-> 0, val |-> 0, attr |-> "none", ch |-> 0]
NoOut == [set |-> FALSE, v |-> 0]
\* What a call has seen and done: the age of the snapshot (jiffies - updated)
\* and the report it was taken from when the call entered, and whether another
\* report has been decoded while the call was running; the results of its
\* GET, of its SET of the control report and of its SET of the secondary
\* report (1 before each) and how many of each it issued; the report it
\* downloaded (a write's, until it is sent) and the offsets at which the
\* report it sent differs from that; whether it stored into the buffer; and
\* whether no other request reached the device between its successful SET of
\* the control report and its SET of the secondary report.
NoHist == [age |-> 0, push |-> <<>>, overtaken |-> FALSE, gres |-> 1, sres |-> 1, ares |-> 1,
           nget |-> 0, nseta |-> 0, nsetb |-> 0,
           dl |-> <<>>, diff |-> {}, patched |-> FALSE, adjacent |-> FALSE]
NoEvent == <<>>
\* No call of d5next_raw_event has been followed yet.  Of the call that is:
\* the report's id, the size the transport gave, the bytes the handler finds
\* at data, the groups of stores it has done (0 once it has returned) and
\* what it returned.
NoIrq == [id |-> 0, size |-> 0, data |-> <<>>, step |-> 0, ret |-> 0]

ZeroSnap ==
    [temp_input |-> 0,
     speed_input |-> [c \in 0 .. 1 |-> 0],
     speed_setpoint |-> [c \in 0 .. 1 |-> 0],
     power_input |-> [c \in 0 .. 1 |-> 0],
     voltage_input |-> [c \in 0 .. 2 |-> 0],
     current_input |-> [c \in 0 .. 1 |-> 0],
     serial_number |-> [c \in 0 .. 1 |-> 0],
     firmware_version |-> 0,
     power_cycles |-> 0]

\* d5next_probe: both allocations are zeroed, the snapshot is dated one
\* update interval back, the mutex is initialised free.
Init ==
    /\ jiffies = InitJiffies
    /\ updated = InitJiffies - STATUS_UPDATE_INTERVAL
    /\ snap = ZeroSnap
    /\ mutex = 0
    /\ buffer = ZeroBlob
    /\ device = DeviceBlob0
    /\ removal = "attached"
    /\ pc = [p \in Procs |-> "idle"]
    /\ req = [p \in Procs |-> NoReq]
    /\ txn = [p \in Procs |-> NoTxn]
    /\ ret = [p \in Procs |-> 0]
    /\ out = [p \in Procs |-> NoOut]
    /\ hist = [p \in Procs |-> NoHist]
    /\ calls = 0
    /\ ev = NoEvent
    /\ irq = NoIrq

(***************************************************************************)
(* Entry points: what each callback does before it takes the mutex.  The   *)
(* result is either an early return or the transaction to run.             *)
(***************************************************************************)
Early(r) == [early |-> TRUE, ret |-> r, txn |-> NoTxn]
Start(t) == [early |-> FALSE, ret |-> 0, txn |-> t]
Txn(kind, off, size, val, attr, ch) ==
    [kind |-> kind, off |-> off, size |-> size, val |-> val, attr |-> attr, ch |-> ch]

\* d5next_set_val takes the mutex first: the transaction starts whatever the size.
d5next_set_val(off, val, size) == Start(Txn("set_val", off, size, val, "none", 0))
d5next_set_u16_val(off, val) == d5next_set_val(off, val, 16)
d5next_set_u8_val(off, val) == d5next_set_val(off, val, 8)

d5next_set_pwm_setpoint(channel, val) ==
    IF val < 0 \/ val > 255 \/ ~fan_channel_is_valid(channel)
    THEN Early(-EINVAL)
    ELSE d5next_set_u16_val(OffManualSetpoint(channel), d5next_pwm_to_percent(val))

\* A d5next_set_pwm_enable that tests the channel and not the value.
SetPwmEnableUnchecked(channel, val) ==
    IF ~fan_channel_is_valid(channel)
    THEN Early(-EINVAL)
    ELSE d5next_set_u8_val(OffMode(channel), val)

d5next_set_pwm_enable(channel, val) ==
    IF val < FAN_CONTROL_MANUAL \/ val > FAN_CONTROL_CURVE \/ ~fan_channel_is_valid(channel)
    THEN Early(-EINVAL)
    ELSE d5next_set_u8_val(OffMode(channel), val)

d5next_write(r) ==
    IF r.type = "pwm"
    THEN LET channel == d5next_userspace_to_internal_channel(r.channel)
         IN  CASE r.attr = "input" -> d5next_set_pwm_setpoint(channel, r.val)
               [] r.attr = "enable" -> d5next_set_pwm_enable(channel, r.val)
               [] OTHER -> Early(-EOPNOTSUPP)
    ELSE Early(-EOPNOTSUPP)

\* The freshness gate and the dispatch on the sensor type; fan and pwm go on
\* to d5next_read_fan and d5next_read_pwm, the rest read the snapshot.
d5next_read(r, now, upd) ==
    IF time_after(now, upd + STATUS_UPDATE_INTERVAL)
    THEN Early(-ENODATA)
    ELSE CASE r.type = "fan" -> Start(Txn("read_fan", 0, 0, 0, r.attr, r.channel))
           [] r.type = "pwm" -> Start(Txn("read_pwm", 0, 0, 0, r.attr, r.channel))
           [] r.type \in {"temp", "power", "in", "curr"} ->
                 Start(Txn("snap", 0, 0, 0, r.type, r.channel))
           [] OTHER -> Early(-EOPNOTSUPP)

d5next_get_pwm_setting(r) ==
    LET channel == d5next_userspace_to_internal_channel(r.channel)
        to_get == CASE r.idx = IDX_MIN_PWM -> OffMinPwm(channel)
                    [] r.idx = IDX_MAX_PWM -> OffMaxPwm(channel)
                    [] OTHER -> OffPowers(channel, r.idx)
    IN  IF ~fan_channel_is_valid(channel)
        THEN Early(-ENODATA)
        ELSE Start(Txn("get_val", to_get, 2, 0, "pwm", 0))

d5next_get_auto_temp(r) ==
    LET channel == d5next_userspace_to_internal_channel(r.channel)
        to_get == IF r.idx = NUM_CTRL_CURVE_POINTS + 1
                  THEN OffStartTemp(channel)
                  ELSE OffTemps(channel, r.idx)
    IN  IF ~fan_channel_is_valid(channel)
        THEN Early(-ENODATA)
        ELSE Start(Txn("get_val", to_get, 2, 0, "temp", 0))

\* r.val is what kstrtol parsed (the text of every request here is a number)
d5next_set_auto_temp(r) ==
    LET channel == d5next_userspace_to_internal_channel(r.channel)
        val == DIV_ROUND_CLOSEST(r.val, 10)
        to_set == IF r.idx = NUM_CTRL_CURVE_POINTS + 1
                  THEN OffStartTemp(channel)
                  ELSE OffTemps(channel, r.idx)
    IN  IF ~fan_channel_is_valid(channel)
        THEN Early(-EINVAL)
        ELSE d5next_set_u16_val(to_set, val)

d5next_set_auto_pwm(r) ==
    LET channel == d5next_userspace_to_internal_channel(r.channel)
    IN  IF ~fan_channel_is_valid(channel)
        THEN Early(-ENOENT)
        ELSE IF r.val < 0 \/ r.val > 255
        THEN Early(-EINVAL)
        ELSE d5next_set_u16_val(OffPowers(channel, r.idx), d5next_pwm_to_percent(r.val))

Dispatch(r, now, upd) ==
    CASE r.op = "read" -> d5next_read(r, now, upd)
      [] r.op = "write" -> d5next_write(r)
      [] r.op = "get_pwm_setting" -> d5next_get_pwm_setting(r)
      [] r.op = "get_auto_temp" -> d5next_get_auto_temp(r)
      [] r.op = "set_auto_temp" -> d5next_set_auto_temp(r)
      [] r.op = "set_auto_pwm" -> d5next_set_auto_pwm(r)
      [] r.op = "set_val" -> d5next_set_val(r.idx, r.val, r.size)

(***************************************************************************)
(* The calls the threads make.                                             *)
(***************************************************************************)
Req(op, type, attr, channel, idx, val) ==
    [op |-> op, type |-> type, attr |-> attr, channel |-> channel, idx |-> idx, val |-> val]

\* Configuration reads and writes through hwmon and the sysfs attributes.
ConfigRequests ==
    { Req("write", "pwm", "input", USERSPACE_CHANNEL_FAN, 0, 128),
      Req("write", "pwm", "enable", USERSPACE_CHANNEL_PUMP, 0, FAN_CONTROL_PID),
      Req("get_pwm_setting", "none", "none", USERSPACE_CHANNEL_PUMP, IDX_MAX_PWM, 0) }

\* Sensor reads through hwmon.
SensorRequests ==
    { Req("read", "temp", "input", 0, 0, 0) }
    \cup { Req("read", t, "input", c, 0, 0) :
             t \in {"fan", "power", "in", "curr"},
             c \in {USERSPACE_CHANNEL_PUMP, USERSPACE_CHANNEL_FAN} }

\* d5next_set_val called on its own, with each width it supports and one it
\* does not: the mode byte of the fan channel.
Widths == {8, 16, 32}
SetValRequests ==
    { [op |-> "set_val", type |-> "none", attr |-> "none", channel |-> 0,
       idx |-> OffMode(FAN_CONTROL_CHANNEL_FAN), val |-> FAN_CONTROL_PID, size |-> w] :
         w \in Widths }

\* A channel number user space has no name for.
NoSuchChannel == USERSPACE_CHANNEL_FAN + 1

\* The exposed surface, channel by channel: hwmon's pwmN_input, pwmN_enable
\* and fanN_max, the sysfs attributes pwmN_min (shown by
\* d5next_get_pwm_setting, stored by d5next_set_auto_temp), and the same
\* callbacks entered with a channel that does not exist.
SurfaceRequests ==
    { Req("write", "pwm", "input", USERSPACE_CHANNEL_FAN, 0, 128),
      Req("read", "pwm", "input", USERSPACE_CHANNEL_FAN, 0, 0),
      Req("read", "pwm", "enable", USERSPACE_CHANNEL_PUMP, 0, 0),
      Req("read", "fan", "max", USERSPACE_CHANNEL_FAN, 0, 0),
      Req("set_auto_temp", "none", "none", USERSPACE_CHANNEL_PUMP, IDX_MIN_PWM, 128),
      Req("get_pwm_setting", "none", "none", USERSPACE_CHANNEL_PUMP, IDX_MIN_PWM, 0),
      Req("write", "pwm", "input", NoSuchChannel, 0, 128),
      Req("read", "fan", "max", NoSuchChannel, 0, 0),
      Req("get_pwm_setting", "none", "none", NoSuchChannel, IDX_MIN_PWM, 0) }

\* Writes of pwmN_input and pwmN_enable through hwmon: values at both ends
\* of the accepted range, inside it and just outside it.
PwmRequests ==
    { Req("write", "pwm", "input", USERSPACE_CHANNEL_FAN, 0, 128),
      Req("write", "pwm", "input", USERSPACE_CHANNEL_FAN, 0, 0),
      Req("write", "pwm", "input", USERSPACE_CHANNEL_PUMP, 0, 255),
      Req("write", "pwm", "input", USERSPACE_CHANNEL_FAN, 0, 256),
      Req("write", "pwm", "input", USERSPACE_CHANNEL_PUMP, 0, -1),
      Req("write", "pwm", "enable", USERSPACE_CHANNEL_PUMP, 0, FAN_CONTROL_MANUAL),
      Req("write", "pwm", "enable", USERSPACE_CHANNEL_PUMP, 0, FAN_CONTROL_PID),
      Req("write", "pwm", "enable", USERSPACE_CHANNEL_FAN, 0, FAN_CONTROL_CURVE),
      Req("write", "pwm", "enable", USERSPACE_CHANNEL_FAN, 0, FAN_CONTROL_CURVE + 1),
      Req("write", "pwm", "enable", USERSPACE_CHANNEL_PUMP, 0, FAN_CONTROL_MANUAL - 1) }

\* A write that can fail at the download or at the upload, and a
\* d5next_set_val whose width makes it fail at the patch.
LiveRequests ==
    { Req("write", "pwm", "input", USERSPACE_CHANNEL_FAN, 0, 128) }
    \cup { r \in SetValRequests : r.size \notin {8, 16} }

Requests ==
    LiveRequests \cup ConfigRequests \cup SensorRequests \cup SetValRequests \cup SurfaceRequests
        \cup PwmRequests

(***************************************************************************)
(* The steps of a call.                                                    *)
(***************************************************************************)
Idle(p) == pc[p] \in {"idle", "done"}
\* Between the mutex_lock of a transaction and its mutex_unlock.
InFlight(p) == pc[p] \in {"get", "copy", "patch", "set", "ack"}

\* A mutex_unlock that leaves the mutex with its holder.
MutexUnlockForgotten(m) == m
\* mutex_unlock gives the mutex up whoever holds it.
mutex_unlock(m) == 0

\* A request of thread p reaches the device: it comes between the two SETs
\* of any other thread that has sent the first and not yet the second.
Interposed(p) ==
    [q \in Procs |-> IF q # p /\ pc[q] = "ack"
                     THEN [hist[q] EXCEPT !.adjacent = FALSE] ELSE hist[q]]

\* A thread enters the driver: everything up to the first mutex_lock, or up
\* to the return when the call never gets that far.
Call(p, r) ==
    /\ Idle(p)
    /\ removal # "removed"
    /\ calls < MaxCalls
    /\ calls' = calls + 1
    /\ LET d == Dispatch(r, jiffies, updated)
       IN  /\ req' = [req EXCEPT ![p] = r]
           /\ txn' = [txn EXCEPT ![p] = d.txn]
           /\ ret' = [ret EXCEPT ![p] = d.ret]
           /\ out' = [out EXCEPT ![p] = NoOut]
           /\ hist' = [hist EXCEPT ![p] = [NoHist EXCEPT !.age = jiffies - updated, !.push = ev]]
           /\ pc' = [pc EXCEPT ![p] = IF d.early THEN "done"
                                      ELSE IF d.txn.kind = "snap" THEN "fetch"
                                      ELSE "lock"]
    /\ UNCHANGED <<jiffies, updated, snap, mutex, buffer, device, removal, ev, irq>>

\* d5next_read: *val = priv-><field>[channel]
SnapField(sn, type, channel) ==
    CASE type = "temp" -> sn.temp_input
      [] type = "power" -> sn.power_input[channel]
      [] type = "in" -> sn.voltage_input[channel]
      [] type = "curr" -> sn.current_input[channel]

Fetch(p) ==
    /\ pc[p] = "fetch"
    /\ out' = [out EXCEPT ![p] = [set |-> TRUE, v |-> SnapField(snap, txn[p].attr, txn[p].ch)]]
    /\ ret' = [ret EXCEPT ![p] = 0]
    /\ pc' = [pc EXCEPT ![p] = "done"]
    /\ UNCHANGED <<jiffies, updated, snap, mutex, buffer, device, removal, req, txn,
                   hist, calls, ev, irq>>

\* mutex_lock, which sleeps until the mutex is free; d5next_get_val then
\* checks the size and leaves at once when it is out of range.
Lock(p) ==
    /\ pc[p] = "lock"
    /\ mutex = 0
    /\ IF txn[p].kind = "get_val" /\ (txn[p].size < 1 \/ txn[p].size > 4)
       THEN /\ ret' = [ret EXCEPT ![p] = -EINVAL]
            /\ mutex' = mutex_unlock(p)
            /\ pc' = [pc EXCEPT ![p] = "done"]
       ELSE /\ mutex' = p
            /\ pc' = [pc EXCEPT ![p] = "get"]
            /\ UNCHANGED ret
    /\ UNCHANGED <<jiffies, updated, snap, buffer, device, removal, req, txn, out,
                   hist, calls, ev, irq>>

\* What the buffer holds after memset and a GET that returned res: nothing
\* on an error, the first res bytes of the device's report otherwise.
Downloaded(dev, res) == [i \in BlobIdx |-> IF i < res THEN dev[i] ELSE 0]

\* A d5next_get_ctrl_data that reports a failed request as an empty report.
GetCtrlRetIgnoresError(res) == IF res < 0 THEN 0 ELSE res

\* d5next_get_ctrl_data's return value
GetCtrlRet(res) == IF res < 0 THEN -ENODATA ELSE res

\* d5next_get_ctrl_data, and the caller's test of what it returned.
Get(p, res) ==
    /\ pc[p] = "get"
    /\ buffer' = Downloaded(device, res)
    /\ hist' = [Interposed(p) EXCEPT ![p].nget = @ + 1, ![p].gres = res,
                            ![p].dl = IF txn[p].kind = "set_val" /\ GetCtrlRet(res) >= 0
                                      THEN buffer' ELSE <<>>]
    /\ ret' = [ret EXCEPT ![p] = GetCtrlRet(res)]
    /\ IF GetCtrlRet(res) < 0
       THEN /\ mutex' = mutex_unlock(p)
            /\ pc' = [pc EXCEPT ![p] = "done"]
       ELSE /\ pc' = [pc EXCEPT ![p] = IF txn[p].kind = "set_val" THEN "patch" ELSE "copy"]
            /\ UNCHANGED mutex
    /\ UNCHANGED <<jiffies, updated, snap, device, removal, req, txn, out, calls, ev, irq>>

\* Number of characters sprintf("%d\n") writes for n >= 0
RECURSIVE DecLen(_)
DecLen(n) == IF n < 10 THEN 2 ELSE 1 + DecLen(n \div 10)

\* The value a read transaction hands back once the report is in the buffer
\* and the int it returns: [ok, ret, v].
\* d5next_get_val copies size bytes; its callers print them, the pwm settings
\* with "%d\n", the temperatures with "%d0\n".
CopyGetVal(t, buf, gret) ==
    LET val == load_u16(buf, t.off)
    IN  IF t.attr = "pwm"
        THEN [ok |-> TRUE, ret |-> DecLen(d5next_percent_to_pwm(val)),
              v |-> d5next_percent_to_pwm(val)]
        ELSE [ok |-> TRUE, ret |-> DecLen(ntohs(val)) + 1, v |-> 10 * ntohs(val)]

CopyReadPwm(t, buf, sn, gret) ==
    LET channel == d5next_userspace_to_internal_channel(t.ch)
        mode == buf[OffMode(channel)]
    IN  IF ~fan_channel_is_valid(channel) THEN [ok |-> FALSE, ret |-> -ENODATA, v |-> 0]
        ELSE CASE t.attr = "input" ->
                    [ok |-> TRUE, ret |-> gret,
                     v |-> IF mode = FAN_CONTROL_MANUAL
                           THEN load_u16(buf, OffManualSetpoint(channel))
                           ELSE sn.speed_setpoint[channel]]
               [] t.attr = "enable" -> [ok |-> TRUE, ret |-> gret, v |-> mode]
               [] OTHER -> [ok |-> FALSE, ret |-> -ENODATA, v |-> 0]

CopyReadFan(t, buf, sn, gret) ==
    LET channel == d5next_userspace_to_internal_channel(t.ch)
    IN  IF ~fan_channel_is_valid(channel) THEN [ok |-> FALSE, ret |-> -ENODATA, v |-> 0]
        ELSE CASE t.attr = "input" ->
                    [ok |-> TRUE, ret |-> gret, v |-> sn.speed_input[channel]]
               [] t.attr = "max" ->
                    [ok |-> TRUE, ret |-> gret, v |-> ntohs(load_u16(buf, OffMaxSpeed(channel)))]
               [] OTHER -> [ok |-> FALSE, ret |-> -ENODATA, v |-> 0]

\* The rest of a read transaction: take the value out of the buffer, unlock.
Copy(p) ==
    /\ pc[p] = "copy"
    /\ LET c == CASE txn[p].kind = "get_val" -> CopyGetVal(txn[p], buffer, ret[p])
                  [] txn[p].kind = "read_pwm" -> CopyReadPwm(txn[p], buffer, snap, ret[p])
                  [] txn[p].kind = "read_fan" -> CopyReadFan(txn[p], buffer, snap, ret[p])
       IN  /\ out' = [out EXCEPT ![p] = [set |-> c.ok, v |-> c.v]]
           /\ ret' = [ret EXCEPT ![p] = c.ret]
    /\ mutex' = mutex_unlock(p)
    /\ pc' = [pc EXCEPT ![p] = "done"]
    /\ UNCHANGED <<jiffies, updated, snap, buffer, device, removal, req, txn, hist,
                   calls, ev, irq>>

\* The switch of d5next_set_val: the bytes the write puts into the buffer.
Patched(buf, t) ==
    CASE t.size = 16 -> put_unaligned_be16(buf, t.off, t.val)
      [] t.size = 8 -> put_u8(buf, t.off, t.val)
      [] OTHER -> buf

\* The head of d5next_send_ctrl_data: CRC-16/USB of the checksummed range,
\* stored big-endian in the crc field.
Checksummed(buf) ==
    put_unaligned_be16(buf, OFF_CRC,
        Xor16(crc16(65535, buf, STATUS_REPORT_CHECKSUM_START,
                    STATUS_REPORT_CHECKSUM_LENGTH), 65535))

\* d5next_set_val after the download: patch the field; an unsupported size
\* leaves with -EINVAL, otherwise d5next_send_ctrl_data puts the checksum in.
Patch(p) ==
    /\ pc[p] = "patch"
    /\ IF txn[p].size \in {8, 16}
       THEN /\ buffer' = Checksummed(Patched(buffer, txn[p]))
            /\ hist' = [hist EXCEPT ![p].patched = TRUE]
            /\ pc' = [pc EXCEPT ![p] = "set"]
            /\ UNCHANGED <<ret, mutex>>
       ELSE /\ ret' = [ret EXCEPT ![p] = -EINVAL]
            /\ mutex' = mutex_unlock(p)
            /\ pc' = [pc EXCEPT ![p] = "done"]
            /\ UNCHANGED <<buffer, hist>>
    /\ UNCHANGED <<jiffies, updated, snap, device, removal, req, txn, out, calls, ev, irq>>

\* The SET of the control report: what is in the buffer goes to the pump.
Set(p, res) ==
    /\ pc[p] = "set"
    /\ hist' = [Interposed(p) EXCEPT ![p].nseta = @ + 1, ![p].sres = res, ![p].dl = <<>>,
                            ![p].diff = {i \in BlobIdx : buffer[i] # hist[p].dl[i]},
                            ![p].adjacent = (res >= 0)]
    /\ device' = IF res < 0 THEN device ELSE buffer
    /\ ret' = [ret EXCEPT ![p] = res]
    /\ IF res < 0
       THEN /\ mutex' = mutex_unlock(p)
            /\ pc' = [pc EXCEPT ![p] = "done"]
       ELSE /\ pc' = [pc EXCEPT ![p] = "ack"]
            /\ UNCHANGED mutex
    /\ UNCHANGED <<jiffies, updated, snap, buffer, removal, req, txn, out, calls, ev, irq>>

\* A d5next_send_ctrl_data that sends the secondary report again when the
\* request failed, to compare with.
AckRetrying(p, res) ==
    /\ pc[p] = "ack"
    /\ hist' = [Interposed(p) EXCEPT ![p].nsetb = @ + 1, ![p].ares = res]
    /\ ret' = [ret EXCEPT ![p] = res]
    /\ IF res < 0 /\ hist[p].nsetb = 0
       THEN UNCHANGED <<mutex, pc>>
       ELSE /\ mutex' = mutex_unlock(p)
            /\ pc' = [pc EXCEPT ![p] = "done"]
    /\ UNCHANGED <<jiffies, updated, snap, buffer, device, removal, req, txn, out,
                   calls, ev, irq>>

\* The SET of the secondary status report, then the unlock and the return.
Ack(p, res) ==
    /\ pc[p] = "ack"
    /\ hist' = [Interposed(p) EXCEPT ![p].nsetb = @ + 1, ![p].ares = res]
    /\ ret' = [ret EXCEPT ![p] = res]
    /\ mutex' = mutex_unlock(p)
    /\ pc' = [pc EXCEPT ![p] = "done"]
    /\ UNCHANGED <<jiffies, updated, snap, buffer, device, removal, req, txn, out,
                   calls, ev, irq>>

(***************************************************************************)
(* d5next_remove.                                                          *)
(***************************************************************************)
\* Its first statement unlocks the mutex, whether or not anyone holds it;
\* the hwmon device and its attributes are still registered at that point.
RemoveUnlock ==
    /\ removal = "attached"
    /\ mutex' = mutex_unlock(0)
    /\ removal' = "unlocked"
    /\ UNCHANGED <<jiffies, updated, snap, buffer, device, pc, req, txn, ret, out,
                   hist, calls, ev, irq>>

\* hwmon_device_unregister waits for the callbacks that are running, and no
\* call is started afterwards; hid_hw_stop ends the raw events.
RemoveUnregister ==
    /\ removal = "unlocked"
    /\ \A p \in Procs : Idle(p)
    /\ removal' = "removed"
    /\ UNCHANGED <<jiffies, updated, snap, mutex, buffer, device, pc, req, txn, ret,
                   out, hist, calls, ev, irq>>

(***************************************************************************)
(* Sensor reports and d5next_raw_event.                                    *)
(***************************************************************************)
\* A sensor report long enough for every field the handler decodes.
SensorReportLen == PUMP_SETPOINT + 2
ReportIdx == 0 .. (SensorReportLen - 1)

RECURSIVE PutFields(_, _)
PutFields(buf, fields) ==
    IF fields = <<>> THEN buf
    ELSE PutFields(put_unaligned_be16(buf, fields[1][1], fields[1][2]), Tail(fields))

MkReport(f) ==
    PutFields([i \in ReportIdx |-> IF i = 0 THEN SENSOR_REPORT_ID ELSE 0],
        << <<SERIAL_FIRST_PART, f.serial0>>, <<SERIAL_SECOND_PART, f.serial1>>,
           <<FIRMWARE_VERSION, f.firmware>>, <<POWER_CYCLES + 2, f.cycles>>,
           <<COOLANT_TEMP, f.temp>>, <<PLUS_5V_VOLTAGE, f.v5>>,
           <<FAN_VOLTAGE, f.fan_v>>, <<FAN_CURRENT, f.fan_c>>,
           <<FAN_POWER, f.fan_p>>, <<FAN_SPEED, f.fan_s>>,
           <<PUMP_VOLTAGE, f.pump_v>>, <<PUMP_CURRENT, f.pump_c>>,
           <<PUMP_POWER, f.pump_p>>, <<PUMP_SPEED, f.pump_s>>,
           <<FAN_SETPOINT, f.fan_set>>, <<PUMP_SETPOINT, f.pump_set>> >>)

\* Two pushes of a running pump, no field of one equal to that of the other.
ReportA == MkReport([serial0 |-> 1234, serial1 |-> 5678, firmware |-> 1023, cycles |-> 42,
                     temp |-> 3000, v5 |-> 500,
                     fan_v |-> 1190, fan_c |-> 150, fan_p |-> 170, fan_s |-> 1100,
                     pump_v |-> 1200, pump_c |-> 400, pump_p |-> 480, pump_s |-> 2500,
                     fan_set |-> 5000, pump_set |-> 10000])
ReportB == MkReport([serial0 |-> 1234, serial1 |-> 5678, firmware |-> 1023, cycles |-> 42,
                     temp |-> 3150, v5 |-> 498,
                     fan_v |-> 1185, fan_c |-> 210, fan_p |-> 250, fan_s |-> 1400,
                     pump_v |-> 1195, pump_c |-> 520, pump_p |-> 620, pump_s |-> 3100,
                     fan_set |-> 6500, pump_set |-> 8000])
SensorReports == {ReportA, ReportB}
\* The identifiers of the reports that arrive.
ReportIds == {SENSOR_REPORT_ID, SECONDARY_STATUS_REPORT_ID}

\* The stores of the handler, in source order: serial number, firmware
\* version, power cycles, coolant temperature,
StoreInfo(sn, data) ==
    [sn EXCEPT
       !.serial_number = [c \in 0 .. 1 |->
             IF c = 0 THEN get_unaligned_be16(data, SERIAL_FIRST_PART)
             ELSE get_unaligned_be16(data, SERIAL_SECOND_PART)],
       !.firmware_version = get_unaligned_be16(data, FIRMWARE_VERSION),
       !.power_cycles = get_unaligned_be32(data, POWER_CYCLES),
       !.temp_input = get_unaligned_be16(data, COOLANT_TEMP) * 10]

\* speed_input and speed_setpoint, indexed by the internal channel,
StoreSpeed(sn, data) ==
    [sn EXCEPT
       !.speed_input = [c \in 0 .. 1 |->
             IF c = FAN_CONTROL_CHANNEL_PUMP
             THEN get_unaligned_be16(data, PUMP_SPEED)
             ELSE get_unaligned_be16(data, FAN_SPEED)],
       !.speed_setpoint = [c \in 0 .. 1 |->
             IF c = FAN_CONTROL_CHANNEL_PUMP
             THEN ToU16(d5next_percent_to_pwm(data[PUMP_SETPOINT]))
             ELSE ToU16(d5next_percent_to_pwm(data[FAN_SETPOINT]))]]

\* power_input (u32: 65535 * 10000 fits), voltage_input and current_input (u16).
StorePower(sn, data) ==
    [sn EXCEPT
       !.power_input = [c \in 0 .. 1 |->
             IF c = 0 THEN get_unaligned_be16(data, PUMP_POWER) * 10000
             ELSE get_unaligned_be16(data, FAN_POWER) * 10000],
       !.voltage_input = [c \in 0 .. 2 |->
             CASE c = 0 -> ToU16(get_unaligned_be16(data, PUMP_VOLTAGE) * 10)
               [] c = 1 -> ToU16(get_unaligned_be16(data, FAN_VOLTAGE) * 10)
               [] c = 2 -> ToU16(get_unaligned_be16(data, PLUS_5V_VOLTAGE) * 10)],
       !.current_input = [c \in 0 .. 1 |->
             IF c = 0 THEN get_unaligned_be16(data, PUMP_CURRENT)
             ELSE get_unaligned_be16(data, FAN_CURRENT)]]

\* d5next_raw_event run from its first statement to its return: a report
\* that is not the sensor report changes nothing, the sensor report is
\* decoded into the snapshot and the snapshot dated.
d5next_raw_event(id, data) ==
    /\ removal # "removed"
    /\ IF id # SENSOR_REPORT_ID
       THEN UNCHANGED <<snap, updated, ev, hist>>
       ELSE /\ snap' = StorePower(StoreSpeed(StoreInfo(snap, data), data), data)
            /\ updated' = jiffies
            /\ ev' = data
            /\ hist' = [q \in Procs |-> IF Idle(q) THEN hist[q]
                                         ELSE [hist[q] EXCEPT !.overtaken = TRUE]]
    /\ UNCHANGED <<jiffies, mutex, buffer, device, removal, pc, req, txn, ret,
                   out, calls, irq>>

\* One timer tick.
Tick ==
    /\ jiffies < MaxJiffies
    /\ jiffies' = jiffies + 1
    /\ UNCHANGED <<updated, snap, mutex, buffer, device, removal, pc, req, txn, ret,
                   out, hist, calls, ev, irq>>

(***************************************************************************)
(* d5next_raw_event store by store.  The handler runs in the transport's   *)
(* completion context and takes no lock, so the threads in d5next_read run *)
(* between its stores.                                                     *)
(***************************************************************************)
\* A sensor report that ends before the coolant temperature.
ShortLen == COOLANT_TEMP
\* What the transport's buffer may hold past the end of a short report:
\* nothing, or what an earlier report left there.
StaleBytes == {[i \in ReportIdx |-> 0], ReportA}
\* The bytes at data when the first len of them are the report's.
Received(r, len, stale) == [i \in ReportIdx |-> IF i < len THEN r[i] ELSE stale[i]]

\* The calls hid-core makes: either sensor report whole, a sensor report cut
\* short, and a report with another id.
Messages ==
    { [id |-> SENSOR_REPORT_ID, size |-> SensorReportLen, data |-> r] : r \in SensorReports }
    \cup { [id |-> SENSOR_REPORT_ID, size |-> ShortLen,
            data |-> Received(ReportB, ShortLen, stale)] : stale \in StaleBytes }
    \cup { [id |-> SECONDARY_STATUS_REPORT_ID, size |-> SensorReportLen,
            data |-> [ReportA EXCEPT ![0] = SECONDARY_STATUS_REPORT_ID]] }

\* The well-formed sensor reports among them.
WholeReports == { m \in Messages : m.id = SENSOR_REPORT_ID /\ m.size = SensorReportLen }

\* An always-decoding handler, to compare with.
AnyReportId(id) == TRUE
\* report->id != SENSOR_REPORT_ID is what the handler returns on.
IsSensorReport(id) == id = SENSOR_REPORT_ID

\* The handler is entered: the check of the id and, for the sensor report,
\* the stores up to temp_input.  The size is not looked at.
RawEventEnter(m) ==
    /\ removal # "removed"
    /\ irq.step = 0
    /\ IF IsSensorReport(m.id)
       THEN /\ snap' = StoreInfo(snap, m.data)
            /\ irq' = [id |-> m.id, size |-> m.size, data |-> m.data, step |-> 1, ret |-> 0]
       ELSE /\ irq' = [id |-> m.id, size |-> m.size, data |-> m.data, step |-> 0, ret |-> 0]
            /\ UNCHANGED snap
    /\ UNCHANGED <<jiffies, updated, mutex, buffer, device, removal, pc, req, txn, ret,
                   out, hist, calls, ev>>

\* The same stores by a handler that waits for the mutex, to compare with.
RawEventSpeedLocked ==
    /\ irq.step = 1
    /\ mutex = 0
    /\ snap' = StoreSpeed(snap, irq.data)
    /\ irq' = [irq EXCEPT !.step = 2]
    /\ UNCHANGED <<jiffies, updated, mutex, buffer, device, removal, pc, req, txn, ret,
                   out, hist, calls, ev>>

\* The stores into speed_input and speed_setpoint.
RawEventSpeed ==
    /\ irq.step = 1
    /\ snap' = StoreSpeed(snap, irq.data)
    /\ irq' = [irq EXCEPT !.step = 2]
    /\ UNCHANGED <<jiffies, updated, mutex, buffer, device, removal, pc, req, txn, ret,
                   out, hist, calls, ev>>

\* The stores into power_input, voltage_input and current_input.
RawEventPower ==
    /\ irq.step = 2
    /\ snap' = StorePower(snap, irq.data)
    /\ irq' = [irq EXCEPT !.step = 3]
    /\ UNCHANGED <<jiffies, updated, mutex, buffer, device, removal, pc, req, txn, ret,
                   out, hist, calls, ev>>

\* priv->updated = jiffies; return 0
RawEventStamp ==
    /\ irq.step = 3
    /\ updated' = jiffies
    /\ ev' = irq.data
    /\ hist' = [q \in Procs |-> IF Idle(q) THEN hist[q]
                                 ELSE [hist[q] EXCEPT !.overtaken = TRUE]]
    /\ irq' = [irq EXCEPT !.step = 0, !.ret = 0]
    /\ UNCHANGED <<jiffies, snap, mutex, buffer, device, removal, pc, req, txn, ret,
                   out, calls>>

\* Raw 16-bit values of a sensor report: the ends of the range, the values
\* around each power of 256 and around 65536 / 10, and setpoints between 0
\* and 100 percent.
RawValues ==
    {0, 1, 2, 49, 50, 255, 256, 2500, 5000, 6553, 6554, 7500, 9999, 10000, 32767, 32768,
     65534, 65535}
\* The sensor report in which every 16-bit reading and both setpoints have
\* the raw value.
ScaleReport(raw) ==
    MkReport([serial0 |-> 1234, serial1 |-> 5678, firmware |-> 1023, cycles |-> 42,
              temp |-> raw, v5 |-> raw,
              fan_v |-> raw, fan_c |-> raw, fan_p |-> raw, fan_s |-> raw,
              pump_v |-> raw, pump_c |-> raw, pump_p |-> raw, pump_s |-> raw,
              fan_set |-> raw, pump_set |-> raw])
ScaleMessages ==
    { [id |-> SENSOR_REPORT_ID, size |-> SensorReportLen, data |-> ScaleReport(raw)] :
        raw \in RawValues }

\* The transactions made while reports arrive: a write and a read.
MixedRequests ==
    { Req("write", "pwm", "input", USERSPACE_CHANNEL_FAN, 0, 128),
      Req("get_pwm_setting", "none", "none", USERSPACE_CHANNEL_PUMP, IDX_MAX_PWM, 0) }

\* The reads made while reports arrive: one field of the first group of
\* stores and one of the last.
TearRequests ==
    { Req("read", "temp", "input", 0, 0, 0),
      Req("read", "power", "input", USERSPACE_CHANNEL_FAN, 0, 0) }

(***************************************************************************)
(* debugfs.                                                                *)
(***************************************************************************)
\* A thread reads the debugfs file raw_buffer: seq_file calls
\* raw_buffer_show.
DebugCall(p) ==
    /\ Idle(p)
    /\ removal # "removed"
    /\ calls < MaxCalls
    /\ calls' = calls + 1
    /\ req' = [req EXCEPT ![p] = [NoReq EXCEPT !.op = "raw_buffer_show"]]
    /\ txn' = [txn EXCEPT ![p] = [NoTxn EXCEPT !.kind = "debugfs"]]
    /\ ret' = [ret EXCEPT ![p] = 0]
    /\ out' = [out EXCEPT ![p] = NoOut]
    /\ hist' = [hist EXCEPT ![p] = [NoHist EXCEPT !.age = jiffies - updated, !.push = ev]]
    /\ pc' = [pc EXCEPT ![p] = "dump"]
    /\ UNCHANGED <<jiffies, updated, snap, mutex, buffer, device, removal, ev, irq>>

\* raw_buffer_show prints every byte of priv->buffer and then some of its
\* fields; no lock is taken.  Of what it prints the bytes are kept (as the
\* report the call has seen) and the line "crc:".
raw_buffer_show(p) ==
    /\ pc[p] = "dump"
    /\ hist' = [hist EXCEPT ![p].dl = buffer]
    /\ out' = [out EXCEPT ![p] = [set |-> TRUE, v |-> ntohs(load_u16(buffer, OFF_CRC))]]
    /\ ret' = [ret EXCEPT ![p] = 0]
    /\ pc' = [pc EXCEPT ![p] = "done"]
    /\ UNCHANGED <<jiffies, updated, snap, mutex, buffer, device, removal, req, txn,
                   calls, ev, irq>>

(***************************************************************************)
(* The unit conversions on their own.                                      *)
(***************************************************************************)
\* Every pwm value a caller can pass and every setpoint the pump can hold
\* (hundredths of a percent).
PwmValues == 0 .. 255
RawPercents == 0 .. (100 * 100)
UnitInputs ==
    { Req("convert", "pwm", "none", 0, 0, u) : u \in PwmValues }
    \cup { Req("convert", "percent", "none", 0, 0, x) : x \in RawPercents }

\* The u16 a caller of d5next_percent_to_pwm holds for a setpoint: the two
\* bytes put_unaligned_be16 stored, copied out of the report as they lie.
Wire(x) == load_u16(put_unaligned_be16([i \in 0 .. 1 |-> 0], 0, x), 0)

\* The driver attached and one conversion to make: of a pwm value to a
\* setpoint and back, or of a setpoint to a pwm value.
InitUnits ==
    /\ jiffies = InitJiffies
    /\ updated = InitJiffies - STATUS_UPDATE_INTERVAL
    /\ snap = ZeroSnap
    /\ mutex = 0
    /\ buffer = ZeroBlob
    /\ device = DeviceBlob0
    /\ removal = "attached"
    /\ \E r \in UnitInputs :
          /\ req = [p \in Procs |-> IF p \in Readers THEN r ELSE NoReq]
          /\ pc = [p \in Procs |-> IF p \notin Readers THEN "idle"
                                   ELSE IF r.type = "pwm" THEN "to_percent"
                                   ELSE "to_pwm"]
          /\ txn = [p \in Procs |-> IF p \in Readers /\ r.type = "percent"
                                    THEN [NoTxn EXCEPT !.val = r.val] ELSE NoTxn]
    /\ ret = [p \in Procs |-> 0]
    /\ out = [p \in Procs |-> NoOut]
    /\ hist = [p \in Procs |-> NoHist]
    /\ calls = 0
    /\ ev = NoEvent
    /\ irq = NoIrq

\* val = d5next_pwm_to_percent(val), as the setpoint writers do
PwmToPercent(p) ==
    /\ pc[p] = "to_percent"
    /\ txn' = [txn EXCEPT ![p].val = d5next_pwm_to_percent(req[p].val)]
    /\ pc' = [pc EXCEPT ![p] = "to_pwm"]
    /\ UNCHANGED <<jiffies, updated, snap, mutex, buffer, device, removal, req, ret,
                   out, hist, calls, ev, irq>>

\* d5next_percent_to_pwm(val) on the setpoint as it lies in the report
PercentToPwm(p) ==
    /\ pc[p] = "to_pwm"
    /\ out' = [out EXCEPT ![p] = [set |-> TRUE, v |-> d5next_percent_to_pwm(Wire(txn[p].val))]]
    /\ pc' = [pc EXCEPT ![p] = "done"]
    /\ UNCHANGED <<jiffies, updated, snap, mutex, buffer, device, removal, req, txn,
                   ret, hist, calls, ev, irq>>

(***************************************************************************)
(* The system.                                                             *)
(***************************************************************************)
ConfigCall(p) == \E r \in ConfigRequests : Call(p, r)
SensorCall(p) == \E r \in SensorRequests : Call(p, r)
SetValCall(p) == \E r \in SetValRequests : Call(p, r)

\* The steps of a transaction once its call is in.
Transact ==
    \/ \E p \in Procs : Lock(p)
    \/ \E p \in Procs : \E res \in GetResults : Get(p, res)
    \/ \E p \in Procs : Copy(p)
    \/ \E p \in Procs : Patch(p)
    \/ \E p \in Procs : \E res \in SetResults : Set(p, res)
    \/ \E p \in Procs : \E res \in AckResults : Ack(p, res)

\* The configuration path: the calls that read and write the control report.
NextConfig ==
    \/ \E p \in Procs : ConfigCall(p)
    \/ Transact

\* The same with the device removed under the calls.
NextRemove ==
    \/ NextConfig
    \/ RemoveUnlock
    \/ RemoveUnregister

\* The same with d5next_set_val called under each width as well.
NextSetVal ==
    \/ \E p \in Procs : SetValCall(p)
    \/ NextConfig

\* Writes only, by both threads.
LiveCall(p) == \E r \in LiveRequests : Call(p, r)
NextLive ==
    \/ \E p \in Procs : LiveCall(p)
    \/ \E p \in Procs : Lock(p)
    \/ \E p \in Procs : \E res \in GetResults : Get(p, res)
    \/ \E p \in Procs : Patch(p)
    \/ \E p \in Procs : \E res \in SetResults : Set(p, res)
    \/ \E p \in Procs : \E res \in AckResults : Ack(p, res)

\* The scheduler: a thread that is in a call and is not waiting for a held
\* mutex takes its next step (mutex_lock returns when the mutex is free,
\* each request to the device returns, the code between them runs).  It is
\* written on pc alone; which step that is and what it does is for the
\* actions to say.
Run(p) ==
    /\ InFlight(p) \/ (pc[p] = "lock" /\ mutex = 0)
    /\ \E l \in {"get", "copy", "patch", "set", "ack", "done"} : pc' = [pc EXCEPT ![p] = l]

\* The exposed surface used by one thread, each call on its own.
SurfaceCall(p) == \E r \in SurfaceRequests : Call(p, r)
NextSurface ==
    \/ \E p \in Readers : SurfaceCall(p)
    \/ Transact

\* Writes of the setpoint and of the mode by one thread.
PwmCall(p) == \E r \in PwmRequests : Call(p, r)
NextPwm ==
    \/ \E p \in Readers : PwmCall(p)
    \/ \E p \in Procs : Lock(p)
    \/ \E p \in Procs : \E res \in GetResults : Get(p, res)
    \/ \E p \in Procs : Patch(p)
    \/ \E p \in Procs : \E res \in SetResults : Set(p, res)
    \/ \E p \in Procs : \E res \in AckResults : Ack(p, res)

\* The conversions applied to each input.
NextUnits ==
    \/ \E p \in Procs : PwmToPercent(p)
    \/ \E p \in Procs : PercentToPwm(p)

\* The sensor path: the clock, the reports the pump pushes, the hwmon reads.
NextSensor ==
    \/ \E p \in Readers : SensorCall(p)
    \/ \E p \in Procs : Fetch(p)
    \/ \E p \in Procs : Lock(p)
    \/ \E p \in Procs : \E res \in GetResults : Get(p, res)
    \/ \E p \in Procs : Copy(p)
    \/ \E id \in ReportIds : \E data \in SensorReports : d5next_raw_event(id, data)
    \/ Tick

\* Ingestion on its own: the reports as they arrive and the clock.
NextIngest ==
    \/ \E m \in Messages : RawEventEnter(m)
    \/ RawEventSpeed
    \/ RawEventPower
    \/ RawEventStamp
    \/ Tick

\* Well-formed sensor reports arriving with a thread reading the snapshot.
TearCall(p) == \E r \in TearRequests : Call(p, r)
NextTear ==
    \/ \E p \in Readers : TearCall(p)
    \/ \E p \in Procs : Fetch(p)
    \/ \E m \in WholeReports : RawEventEnter(m)
    \/ RawEventSpeed
    \/ RawEventPower
    \/ RawEventStamp

\* Well-formed sensor reports arriving with a thread in a transaction.
MixedCall(p) == \E r \in MixedRequests : Call(p, r)
NextMixed ==
    \/ \E p \in Readers : MixedCall(p)
    \/ Transact
    \/ \E m \in WholeReports : RawEventEnter(m)
    \/ RawEventSpeed
    \/ RawEventPower
    \/ RawEventStamp

\* Transactions by one thread, the debugfs file read by either.
NextDebug ==
    \/ \E p \in Readers : MixedCall(p)
    \/ Transact
    \/ \E p \in Procs : DebugCall(p)
    \/ \E p \in Procs : raw_buffer_show(p)

\* The handler applied to a report of each raw value.
NextScale ==
    \/ \E m \in ScaleMessages : RawEventEnter(m)
    \/ RawEventSpeed
    \/ RawEventPower
    \/ RawEventStamp

Next == NextRemove \/ NextSetVal \/ NextSensor \/ NextSurface \/ NextPwm \/ NextUnits
            \/ NextLive \/ NextIngest \/ NextTear \/ NextMixed \/ NextDebug \/ NextScale

\* The whole driver.
Spec == Init /\ [][Next]_vars
\* The driver with only configuration calls made and the clock standing.
SpecConfig == Init /\ [][NextConfig]_vars
\* Configuration calls and the removal of the device.
SpecRemove == Init /\ [][NextRemove]_vars
\* Configuration calls and d5next_set_val called with each width.
SpecSetVal == Init /\ [][NextSetVal]_vars
\* Writes by both threads, every thread scheduled and every device request
\* answered.
SpecLive == Init /\ [][NextLive]_vars /\ \A p \in Procs : WF_pc(Run(p))
\* The driver with only sensor reads made and the device never removed.
SpecSensor == Init /\ [][NextSensor]_vars
\* The exposed configuration surface used by one thread.
SpecSurface == Init /\ [][NextSurface]_vars
\* Writes of pwmN_input and pwmN_enable by one thread.
SpecPwm == Init /\ [][NextPwm]_vars
\* The two unit conversions over all their inputs.
SpecUnits == InitUnits /\ [][NextUnits]_vars
\* The reports arriving, followed store by store, with the clock running.
SpecIngest == Init /\ [][NextIngest]_vars
\* Well-formed sensor reports arriving while one thread makes transactions.
SpecMixed == Init /\ [][NextMixed]_vars
\* Transactions by one thread while the debugfs file raw_buffer is read.
SpecDebug == Init /\ [][NextDebug]_vars
\* The decoding of the sensor report over the raw values.
SpecScale == Init /\ [][NextScale]_vars
\* Well-formed sensor reports arriving while one thread reads sensor values.
SpecTear == Init /\ [][NextTear]_vars

(***************************************************************************)
(* Vocabulary of the properties.                                           *)
(***************************************************************************)
Finished(p) == pc[p] = "done"
IsWrite(p) == txn[p].kind = "set_val"
WriteSucceeded(p) == Finished(p) /\ IsWrite(p) /\ hist[p].nsetb = 1 /\ ret[p] >= 0
IsSensorRead(p) ==
    req[p].op = "read" /\ req[p].type \in {"temp", "fan", "power", "in", "curr"}

\* The bytes of the field a write is aimed at, and of the checksum.
TargetBytes(t) == IF t.size = 8 THEN {t.off} ELSE {t.off, t.off + 1}
CrcBytes == {OFF_CRC, OFF_CRC + 1}

\* CRC-16/USB by its definition: polynomial 0x8005, input and output
\* reflected, initial value 0xFFFF, final xor 0xFFFF; one bit at a time, most
\* significant bit first, over the reflected bytes.
RECURSIVE Reflect(_, _)
Reflect(x, n) == IF n = 0 THEN 0 ELSE (x % 2) * (2 ^ (n - 1)) + Reflect(x \div 2, n - 1)
RECURSIVE RefShift(_, _)
RefShift(c, n) ==
    IF n = 0 THEN c
    ELSE RefShift(IF c >= 32768 THEN Xor16((c * 2) % 65536, 32773) ELSE c * 2, n - 1)
RefByte(c, b) == RefShift(Xor16(c, Reflect(b, 8) * 256), 8)
RECURSIVE RefFold(_, _, _, _)
RefFold(c, buf, start, len) ==
    IF c < 0 \/ len = 0 THEN c
    ELSE IF len = 1 THEN RefByte(c, buf[start])
    ELSE LET h == len \div 2
         IN  RefFold(RefFold(c, buf, start, h), buf, start + h, len - h)
\* The checksum a control report must carry: over offset 1 up to the crc field.
CRC16_USB(buf) == Xor16(Reflect(RefFold(65535, buf, 1, OFF_CRC - 1), 16), 65535)

(***************************************************************************)
(* The configuration transactions.                                         *)
(***************************************************************************)
\* C1: at most one configuration transaction is in flight at any time: no
\* two threads are between the Download and the end of their transactions
\* at once, so none sees or overwrites the buffer of another.
C1_OneTransactionInFlight ==
    \A p, q \in Procs : p # q => ~(InFlight(p) /\ InFlight(q))

\* C2: for every successful write the report uploaded equals the report that
\* transaction downloaded, except at the bytes of the targeted field (one for
\* an 8-bit field, two for a 16-bit field) and the two bytes of the checksum.
C2_WriteChangesOnlyTarget ==
    \A p \in Procs :
        WriteSucceeded(p) => hist[p].diff \subseteq (TargetBytes(txn[p]) \cup CrcBytes)

\* C3: every report an Upload sends carries in its last two bytes, big-endian,
\* the CRC-16/USB of its own bytes from offset 1 up to the checksum field:
\* whenever a thread is about to issue the SET, the buffer it sends does.
C3_UploadCarriesCrc ==
    \A p \in Procs :
        pc[p] = "set" => get_unaligned_be16(buffer, OFF_CRC) = CRC16_USB(buffer)

\* C4: in a write the secondary report is sent if and only if the SET of the
\* control report succeeded, it is sent with no other device request between
\* the two, and a failure of either SET is returned as an error.
C4_AckFollowsSet ==
    \A p \in Procs :
        Finished(p) /\ IsWrite(p) =>
            /\ hist[p].nsetb = 1 <=> (hist[p].nseta = 1 /\ hist[p].sres >= 0)
            /\ hist[p].nsetb = 1 => hist[p].adjacent
            /\ (hist[p].sres < 0 \/ hist[p].ares < 0) => ret[p] < 0

\* C5: a transaction whose Download fails aborts with -ENODATA: nothing is
\* copied out to the caller, nothing is stored into the buffer, no SET is
\* issued for either report, and the mutex is released.
C5_FailedDownloadAborts ==
    \A p \in Procs :
        Finished(p) /\ hist[p].gres < 0 =>
            /\ ret[p] = -ENODATA
            /\ ~out[p].set
            /\ ~hist[p].patched
            /\ hist[p].nseta = 0 /\ hist[p].nsetb = 0
            /\ mutex # p

\* A write and a read have each finished after a failed Download.
C5_Witness ==
    /\ \E p \in Procs : Finished(p) /\ hist[p].gres < 0 /\ IsWrite(p)
    /\ \E p \in Procs : Finished(p) /\ hist[p].gres < 0 /\ ~IsWrite(p)

\* C6: a Download that returns fewer bytes than the report has is a failure:
\* the transaction aborts with -ENODATA, and the zero-padded buffer is neither
\* patched and uploaded nor used to answer a read.
C6_ShortReadAborts ==
    \A p \in Procs :
        Finished(p) /\ hist[p].gres >= 0 /\ hist[p].gres < STATUS_REPORT_SIZE =>
            /\ ret[p] = -ENODATA
            /\ ~out[p].set
            /\ ~hist[p].patched
            /\ hist[p].nseta = 0 /\ hist[p].nsetb = 0

\* C7: a write whose width is neither 8 nor 16 bits fails with -EINVAL
\* before any device I/O: no GET and no SET is issued for it.
C7_UnsupportedWidthNoIO ==
    \A p \in Procs :
        IsWrite(p) /\ txn[p].size \notin {8, 16} =>
            /\ hist[p].nget = 0 /\ hist[p].nseta = 0 /\ hist[p].nsetb = 0
            /\ Finished(p) => ret[p] = -EINVAL

(***************************************************************************)
(* The sensor reads.                                                       *)
(***************************************************************************)
\* C8: a read of a cached sensor value made when jiffies - updated is at
\* least STATUS_UPDATE_INTERVAL, the interval itself included, fails with
\* -ENODATA and hands back no value.
C8_StaleReadFails ==
    \A p \in Procs :
        IsSensorRead(p) /\ hist[p].age >= STATUS_UPDATE_INTERVAL =>
            Finished(p) /\ ret[p] = -ENODATA /\ ~out[p].set

\* What a push exposes for a sensor read: the pump's value on the external
\* channel Pump, the fan's on the external channel Fan.
Pushed(data, r) ==
    LET pump == r.channel = USERSPACE_CHANNEL_PUMP
    IN  CASE r.type = "temp" -> get_unaligned_be16(data, COOLANT_TEMP) * 10
          [] r.type = "fan" ->
                get_unaligned_be16(data, IF pump THEN PUMP_SPEED ELSE FAN_SPEED)
          [] r.type = "power" ->
                get_unaligned_be16(data, IF pump THEN PUMP_POWER ELSE FAN_POWER) * 10000
          [] r.type = "in" ->
                get_unaligned_be16(data, IF pump THEN PUMP_VOLTAGE ELSE FAN_VOLTAGE) * 10
          [] r.type = "curr" ->
                get_unaligned_be16(data, IF pump THEN PUMP_CURRENT ELSE FAN_CURRENT)

\* C9: a sensor read made one tick after a push, with no other push during
\* it, succeeds and hands back the value of that push for the channel asked.
C9_FreshReadReturnsPush ==
    \A p \in Procs :
        /\ Finished(p) /\ IsSensorRead(p)
        /\ hist[p].age = 1 /\ hist[p].push # NoEvent /\ ~hist[p].overtaken
        => ret[p] >= 0 /\ out[p].set /\ out[p].v = Pushed(hist[p].push, req[p])

\* C10: from the attach until the first push every sensor read fails with
\* -ENODATA, at whatever tick it is made, that of the attach included.
C10_StaleUntilFirstPush ==
    \A p \in Procs :
        IsSensorRead(p) /\ hist[p].push = NoEvent =>
            Finished(p) /\ ret[p] = -ENODATA /\ ~out[p].set

(***************************************************************************)
(* Channels, units and modes.                                              *)
(***************************************************************************)
\* The bytes of the fan_properties and fan_ctrl records of an internal channel.
RecordBytes(ch) ==
    (FanPropsOff(ch) .. (FanPropsOff(ch) + SIZEOF_FAN_PROPERTIES - 1))
    \cup (FanCtrlOff(ch) .. (FanCtrlOff(ch) + SIZEOF_FAN_CTRL - 1))
\* A call that reads or writes a channel's configuration.
IsControlCall(p) ==
    \/ req[p].op \in {"write", "get_pwm_setting", "get_auto_temp", "set_auto_temp",
                      "set_auto_pwm"}
    \/ req[p].op = "read" /\ req[p].type \in {"pwm", "fan"}
InternalChannel(p) == d5next_userspace_to_internal_channel(req[p].channel)

\* C11: the pump's external channel is internal channel 1, the fan's is
\* internal channel 0 and every other external channel is invalid; a control
\* call on a valid channel reads and writes only inside the fan_properties
\* and fan_ctrl records of the translated channel (and the checksum), and a
\* control call on an invalid channel fails without a GET, without a store
\* into the report and without a SET.
C11_ChannelTranslation ==
    /\ d5next_userspace_to_internal_channel(USERSPACE_CHANNEL_PUMP) = 1
    /\ d5next_userspace_to_internal_channel(USERSPACE_CHANNEL_FAN) = 0
    /\ \A x \in (-1 .. 3) \ {USERSPACE_CHANNEL_PUMP, USERSPACE_CHANNEL_FAN} :
          ~fan_channel_is_valid(d5next_userspace_to_internal_channel(x))
    /\ \A p \in Procs :
          IsControlCall(p) /\ pc[p] # "idle" =>
             IF fan_channel_is_valid(InternalChannel(p))
             THEN /\ txn[p].kind \in {"get_val", "set_val"} =>
                        TargetBytes(txn[p]) \subseteq RecordBytes(InternalChannel(p))
                  /\ hist[p].diff \subseteq RecordBytes(InternalChannel(p)) \cup CrcBytes
                  /\ Finished(p) /\ out[p].set /\ txn[p].kind = "read_fan"
                        /\ txn[p].attr = "max" /\ mutex = 0 =>
                        out[p].v = get_unaligned_be16(buffer, OffMaxSpeed(InternalChannel(p)))
                  /\ Finished(p) /\ out[p].set /\ txn[p].kind = "read_pwm"
                        /\ txn[p].attr = "enable" /\ mutex = 0 =>
                        out[p].v = buffer[OffMode(InternalChannel(p))]
             ELSE /\ hist[p].nget = 0
                  /\ hist[p].nseta = 0
                  /\ ~hist[p].patched
                  /\ Finished(p) => ret[p] < 0

\* n / d rounded to the nearest integer, halves upwards (n >= 0, d > 0).
RoundHalfUp(n, d) == (2 * n + d) \div (2 * d)
IsPwmWrite(p, attr) ==
    req[p].op = "write" /\ req[p].type = "pwm" /\ req[p].attr = attr /\ pc[p] # "idle"
NoDeviceIO(p) == hist[p].nget = 0 /\ hist[p].nseta = 0 /\ hist[p].nsetb = 0

C13_UnitRoundTrip ==
    \A p \in Procs :
       /\ req[p].op = "convert" /\ req[p].type = "pwm" /\ pc[p] \in {"to_pwm", "done"} =>
             txn[p].val = RoundHalfUp(req[p].val * 10000, 255)
       /\ req[p].op = "convert" /\ pc[p] = "done" =>
             /\ out[p].v = RoundHalfUp(txn[p].val * 255, 10000)
             /\ out[p].v \in 0 .. 255
             /\ req[p].type = "pwm" =>
                   out[p].v - req[p].val \in {-1, 0, 1}

\* 128 has gone to 5020 and come back as 128.
C13_Witness ==
    \E p \in Procs :
       /\ req[p].op = "convert" /\ req[p].type = "pwm" /\ pc[p] = "done"
       /\ req[p].val = 128 /\ txn[p].val = 5020 /\ out[p].v = 128

BoundBytes(ch, idx) ==
    IF idx = IDX_MIN_PWM THEN {OffMinPwm(ch), OffMinPwm(ch) + 1}
    ELSE {OffMaxPwm(ch), OffMaxPwm(ch) + 1}
CurveBytes(ch) == OffStartTemp(ch) .. (FanCtrlOff(ch) + SIZEOF_FAN_CTRL - 1)
IsBoundWrite(p) ==
    req[p].op = "set_auto_temp" /\ req[p].idx \in {IDX_MIN_PWM, IDX_MAX_PWM}

\* C16: a write to pwmN_min (pwmN_max) changes, in the report that is
\* uploaded, only min_pwm (max_pwm) of the channel's fan_properties and the
\* checksum, no byte of the channel's curve, and once it is uploaded a read
\* of the same attribute returns the value written.
C16_BoundWrite ==
    \A p \in Procs :
       IsBoundWrite(p) /\ hist[p].nseta = 1 =>
          /\ hist[p].diff \subseteq BoundBytes(InternalChannel(p), req[p].idx) \cup CrcBytes
          /\ hist[p].diff \cap CurveBytes(InternalChannel(p)) = {}
          /\ pc[p] = "ack" =>
                d5next_percent_to_pwm(load_u16(device,
                    IF req[p].idx = IDX_MIN_PWM THEN OffMinPwm(InternalChannel(p))
                    ELSE OffMaxPwm(InternalChannel(p)))) = req[p].val

\* C17: a read of pwmN_input of a channel that the downloaded report shows
\* in manual mode returns d5next_percent_to_pwm of that report's
\* manual_setpoint, a value in 0..255 (the caller is the only thread, so the
\* buffer still holds what it downloaded).
C17_SetpointRead ==
    \A p \in Procs :
       /\ req[p].op = "read" /\ req[p].type = "pwm" /\ req[p].attr = "input"
       /\ Finished(p) /\ out[p].set
       /\ buffer[OffMode(InternalChannel(p))] = FAN_CONTROL_MANUAL
       => /\ out[p].v = d5next_percent_to_pwm(
                           load_u16(buffer, OffManualSetpoint(InternalChannel(p))))
          /\ out[p].v \in 0 .. 255

(***************************************************************************)
(* Progress.                                                               *)
(***************************************************************************)
\* C15: every configuration transaction comes to its end, whether it
\* succeeds or fails at the download, at the patch or at the upload: the
\* call returns and does not hold the mutex, and whenever no transaction is
\* in flight the mutex is free, so that the next transaction can take it.
C15_TransactionsEnd ==
    /\ []((\A p \in Procs : ~InFlight(p)) => mutex = 0)
    /\ \A p \in Procs : (pc[p] = "lock" \/ InFlight(p)) ~> (Finished(p) /\ mutex # p)

\* One thread's transaction has failed and the other thread, having taken
\* the mutex after it, has downloaded the report and sent it.
C15_Witness ==
    \E p, q \in Procs :
       /\ p # q
       /\ Finished(p) /\ hist[p].nget = 1 /\ ret[p] < 0
       /\ pc[q] = "ack" /\ mutex = q /\ hist[q].gres >= 0 /\ hist[q].sres >= 0

(***************************************************************************)
(* Ingestion.                                                              *)
(***************************************************************************)
\* The snapshot a report decodes to: every field is stored by the handler.
Decoded(data) == StorePower(StoreSpeed(StoreInfo(ZeroSnap, data), data), data)
\* The staleness test of d5next_read.
Stale == time_after(jiffies, updated + STATUS_UPDATE_INTERVAL)

\* C18: a report whose id is not the sensor report's is ignored without an
\* error: the handler returns 0 at once, and no field of the snapshot and
\* not the time of its last update is changed by it.
C18_OtherReportIgnored ==
    [][(irq' # irq /\ irq'.id # SENSOR_REPORT_ID)
          => (irq'.ret = 0 /\ irq'.step = 0 /\ UNCHANGED <<snap, updated, ev>>)]_vars
\* The snapshot of the last sensor report has gone stale and stays so
\* although a report with another id has arrived since.
C18_Witness ==
    /\ irq.id = SECONDARY_STATUS_REPORT_ID
    /\ irq.step = 0
    /\ snap = Decoded(ReportB)
    /\ ev = ReportB
    /\ Stale

\* C19: a sensor report too short to hold every decoded field is dropped:
\* it changes no field of the snapshot and not the time of its last update.
C19_ShortReportDropped ==
    [][(irq' # irq /\ irq'.id = SENSOR_REPORT_ID /\ irq'.size < SensorReportLen)
          => UNCHANGED <<snap, updated>>]_vars

\* C20: each sensor report replaces the snapshot in one piece: a thread that
\* has passed the staleness test of d5next_read and is about to read its
\* value finds a snapshot that is the decoding of one report, no field of it
\* from another, and that report is the one whose time it tested.
C20_AtomicSnapshot ==
    \A p \in Procs : (pc[p] = "fetch" /\ hist[p].push # NoEvent) =>
        /\ \E m \in WholeReports : snap = Decoded(m.data)
        /\ snap = Decoded(hist[p].push)

(***************************************************************************)
(* The two paths side by side.                                             *)
(***************************************************************************)
\* C21: the handler of the sensor report never takes the mutex and stores
\* only into the snapshot and its time, and no transaction stores into
\* those: whatever a transaction is doing, the handler can be entered and
\* can take each of its steps; its steps leave the mutex, the buffer and the
\* device alone; and a step of a call leaves the snapshot and its time alone.
C21_PathsIndependent ==
    /\ []( /\ (irq.step = 0 /\ removal # "removed")
                 => \A m \in WholeReports : ENABLED RawEventEnter(m)
           /\ irq.step = 1 => ENABLED RawEventSpeed
           /\ irq.step = 2 => ENABLED RawEventPower
           /\ irq.step = 3 => ENABLED RawEventStamp )
    /\ [][ /\ irq' # irq => UNCHANGED <<mutex, buffer, device, pc, ret, out>>
           /\ (pc' # pc \/ mutex' # mutex \/ buffer' # buffer \/ device' # device)
                 => UNCHANGED <<snap, updated, ev, irq>> ]_vars
\* A write holds the mutex with its patched report not yet sent while the
\* handler is between its stores, and a report was decoded whole before.
C21_Witness ==
    \E p \in Procs :
        /\ mutex = p
        /\ pc[p] = "set"
        /\ hist[p].patched
        /\ irq.step = 2
        /\ ev # NoEvent

\* C22: a read of a cached sensor value (temperature, speed, voltage,
\* current, power) has nothing to do with the transactions: it never waits
\* for the mutex, never holds it and never downloads the control report.
C22_SensorReadIndependent ==
    \A p \in Procs :
        (IsSensorRead(p) /\ ~Idle(p)) =>
            /\ pc[p] \in {"fetch", "done"}
            /\ mutex # p
            /\ hist[p].nget = 0

\* C23: the buffer is read only under the mutex: no step that reads bytes
\* of the buffer (the copy of a read's field, the patch and the sending of a
\* write, the dump of raw_buffer) is taken while another thread holds the
\* mutex, that is, between the memset of its transaction and its unlock.
C23_BufferReadUnderLock ==
    [][\A p \in Procs :
          (pc[p] \in {"copy", "patch", "set", "dump"} /\ pc'[p] # pc[p])
              => mutex \in {0, p}]_vars

(***************************************************************************)
(* The requests of a transaction.                                          *)
(***************************************************************************)
\* C24: a transaction that reaches the device issues one GET of the control
\* report and issues it first; a read issues no SET of either report; a
\* write issues at most one SET of the control report and, after it, at
\* most one SET of the secondary report; a request that failed is not
\* issued again, and nothing is sent after it.
C24_RequestsOfATransaction ==
    \A p \in Procs :
        /\ hist[p].nget <= 1 /\ hist[p].nseta <= 1 /\ hist[p].nsetb <= 1
        /\ (InFlight(p) /\ pc[p] # "get") => hist[p].nget = 1
        /\ hist[p].nseta = 1 => (hist[p].nget = 1 /\ hist[p].gres >= 0)
        /\ hist[p].nsetb = 1 => (hist[p].nseta = 1 /\ hist[p].sres >= 0)
        /\ ~IsWrite(p) => (hist[p].nseta = 0 /\ hist[p].nsetb = 0)
        /\ (hist[p].gres < 0 \/ hist[p].sres < 0 \/ hist[p].ares < 0) => Finished(p)
\* A write went through its three requests, the last of them failing, and a
\* read ended on its failed GET.
C24_Witness ==
    \E p, q \in Procs :
        /\ Finished(p) /\ IsWrite(p)
        /\ hist[p].nget = 1 /\ hist[p].nseta = 1 /\ hist[p].nsetb = 1 /\ hist[p].ares < 0
        /\ Finished(q) /\ ~IsWrite(q)
        /\ hist[q].nget = 1 /\ hist[q].gres < 0

(***************************************************************************)
(* The scaling of the sensor values.                                       *)
(***************************************************************************)
\* A report has been decoded to the end.
DecodedWhole == irq.step = 0 /\ irq.id = SENSOR_REPORT_ID /\ ev = irq.data

\* C25: for every raw 16-bit value the stored voltage of each of the three
\* inputs is the raw value times 10 and the stored current the raw value
\* itself, the stored temperature the raw value times 10 and the stored
\* power the raw value times 10000, none of them cut or wrapped.
C25_ScalingExact ==
    DecodedWhole =>
        /\ snap.voltage_input[0] = get_unaligned_be16(ev, PUMP_VOLTAGE) * 10
        /\ snap.voltage_input[1] = get_unaligned_be16(ev, FAN_VOLTAGE) * 10
        /\ snap.voltage_input[2] = get_unaligned_be16(ev, PLUS_5V_VOLTAGE) * 10
        /\ snap.current_input[0] = get_unaligned_be16(ev, PUMP_CURRENT)
        /\ snap.current_input[1] = get_unaligned_be16(ev, FAN_CURRENT)
        /\ snap.temp_input = get_unaligned_be16(ev, COOLANT_TEMP) * 10
        /\ snap.power_input[0] = get_unaligned_be16(ev, PUMP_POWER) * 10000
        /\ snap.power_input[1] = get_unaligned_be16(ev, FAN_POWER) * 10000

\* C26: the handler takes each channel's setpoint as the big-endian 16-bit
\* value at its offset and stores its conversion to pwm: for every raw value
\* from 0 to 10000 the stored setpoint is the raw value times 255 over 10000
\* rounded half up, 255 for 10000 and 0 for 0.
C26_SetpointDecoded ==
    (DecodedWhole /\ get_unaligned_be16(ev, PUMP_SETPOINT) <= 100 * 100
                  /\ get_unaligned_be16(ev, FAN_SETPOINT) <= 100 * 100) =>
        /\ snap.speed_setpoint[FAN_CONTROL_CHANNEL_PUMP]
              = RoundHalfUp(get_unaligned_be16(ev, PUMP_SETPOINT) * 255, 100 * 100)
        /\ snap.speed_setpoint[FAN_CONTROL_CHANNEL_FAN]
              = RoundHalfUp(get_unaligned_be16(ev, FAN_SETPOINT) * 255, 100 * 100)

(***************************************************************************)
(* The mutex and the removal of the device.                                *)
(***************************************************************************)
\* C27: the mutex is given up only by the call that took it, the removal of
\* the device included: a held mutex leaves its holder only in the step in
\* which the holder's transaction ends, so every transaction in flight holds
\* the mutex, also when the device is removed under it.
C27_UnlockByHolder ==
    /\ [](\A p \in Procs : InFlight(p) => mutex = p)
    /\ [][(mutex # 0 /\ mutex' # mutex)
             => (InFlight(mutex) /\ pc'[mutex] = "done")]_vars

====
